---------------------------- MODULE Spec2Model ----------------------------
(***************************************************************************)
(* A model of the runtime core of rust-i18n: the SimpleBackend catalog,    *)
(* the CombinedBackend composition, the locale fallback resolver and the   *)
(* translation resolution function generated by the i18n! macro.           *)
(*                                                                         *)
(* Strings are sequences of one-character strings, so that rfind,          *)
(* trim_end_matches and format! are computed character by character.       *)
(* An Option<T> is a sequence of length at most one: None is << >> and     *)
(* Some(v) is << v >>.                                                     *)
(***************************************************************************)
EXTENDS Naturals, Sequences, FiniteSets

VARIABLES
    fb_tag,     \* resolver iteration: the tag the iteration started from
    fb_cur,     \* resolver iteration: Option<tag>, the value last yielded
    fb_chain,   \* resolver iteration: the values yielded so far, in order
    simple,     \* a SimpleBackend: its translations map
    calls,      \* the add_translations calls made on simple, in order
    layers,     \* three SimpleBackends to compose: name -> translations map
    rs_backend,         \* _RUST_I18N_BACKEND
    rs_fallback,        \* _RUST_I18N_FALLBACK_LOCALE: Option<list of tags>
    rs_locale,          \* _rust_i18n_translate: the argument locale
    rs_key,             \* _rust_i18n_translate: the argument key
    rs_pc,              \* _rust_i18n_translate: the statement to run next
    rs_current_locale,  \* _rust_i18n_translate: current_locale
    rs_i,               \* _rust_i18n_translate: position in the fallback list
    rs_result,          \* _rust_i18n_translate: Option<the value returned>
    rs_queried,         \* the locales passed to the backend's translate, in order
    lz_program,   \* the generated add_translations statements: <<locale, data>>
    lz_extend,    \* the macro's backend = .. option: Option<backend>
    lz_state,     \* the Lazy cell: "incomplete", "running" or "complete"
    lz_value,     \* the Lazy cell: Option<the boxed backend>
    lz_inits,     \* how many times the initializer closure was entered
    lz_late_add,  \* an add_translations ran after some reader's read
    th_pc,        \* per thread: where its first lookup stands
    th_backend,   \* per thread: the closure's local `backend`
    th_todo,      \* per thread: the closure's statements still to run
    th_seen       \* per thread: Option<<<operation, result>>> of its read

vars == <<fb_tag, fb_cur, fb_chain, simple, calls, layers,
          rs_backend, rs_fallback, rs_locale, rs_key, rs_pc,
          rs_current_locale, rs_i, rs_result, rs_queried,
          lz_program, lz_extend, lz_state, lz_value, lz_inits, lz_late_add,
          th_pc, th_backend, th_todo, th_seen>>

fbVars == <<fb_tag, fb_cur, fb_chain>>

sbVars == <<simple, calls>>

cbVars == <<layers>>

rsVars == <<rs_backend, rs_fallback, rs_locale, rs_key, rs_pc,
            rs_current_locale, rs_i, rs_result, rs_queried>>

lzVars == <<lz_program, lz_extend, lz_state, lz_value, lz_inits, lz_late_add,
            th_pc, th_backend, th_todo, th_seen>>

-----------------------------------------------------------------------------
(* Options *)

None == << >>

Some(v) == << v >>

IsSome(o) == Len(o) = 1

Unwrap(o) == o[1]

\* Option::or_else
OrElse(o, alt) == IF IsSome(o) THEN o ELSE alt

-----------------------------------------------------------------------------
(* Strings *)

\* The characters locale tags are drawn from: a letter, the private-use
\* singleton and the subtag separator.
Alphabet == {"a", "x", "-"}

\* The longest tag enumerated.
MaxTagLen == 5

RECURSIVE SeqsUpTo(_, _)
SeqsUpTo(S, n) ==
    IF n = 0 THEN {<< >>}
    ELSE LET shorter == SeqsUpTo(S, n - 1)
         IN  shorter \cup {Append(s, c) : s \in shorter, c \in S}

Tags == SeqsUpTo(Alphabet, MaxTagLen)

\* The tag of the resolver's documentation.
ExampleTag ==
    <<"z","h","-","H","a","n","t","-","C","N","-","x","-",
      "p","r","i","v","a","t","e","1","-","p","r","i","v","a","t","e","2">>

PrivateUse == <<"-", "x">>

Prefix(s, n) == SubSeq(s, 1, n)

EndsWith(s, suf) ==
    /\ Len(suf) <= Len(s)
    /\ SubSeq(s, Len(s) - Len(suf) + 1, Len(s)) = suf

\* str::rfind(char): the byte offset of the last occurrence, as an Option.
RFind(s, c) ==
    LET hits == {i \in 1..Len(s) : s[i] = c}
    IN  IF hits = {} THEN None
        ELSE Some((CHOOSE i \in hits : \A j \in hits : j <= i) - 1)

\* str::trim_end_matches(&str): the suffix is removed repeatedly.
RECURSIVE TrimEndMatches(_, _)
TrimEndMatches(s, pat) ==
    IF Len(pat) > 0 /\ EndsWith(s, pat)
    THEN TrimEndMatches(Prefix(s, Len(s) - Len(pat)), pat)
    ELSE s

-----------------------------------------------------------------------------
(* Catalog data *)

EN == <<"e","n">>

ZH == <<"z","h">>

ZH_CN == <<"z","h","-","C","N">>

\* Locale tags held by catalogs.
Locales == { EN, ZH, ZH_CN }

HELLO == <<"h","e","l","l","o">>

FOO == <<"f","o","o">>

Keys == { HELLO, FOO }

Texts == { <<"H","e","l","l","o">>, <<"H","e","l","l","o","2">> }

\* The mappings handed to add_translations: key -> text, on any set of keys.
DataMaps == UNION { [ks -> Texts] : ks \in SUBSET Keys }

\* u8 values of the characters of Locales (str's Ord compares bytes).
Byte(c) ==
    CASE c = "-" -> 45 [] c = "C" -> 67 [] c = "N" -> 78 [] c = "a" -> 97
      [] c = "e" -> 101 [] c = "h" -> 104 [] c = "n" -> 110 [] c = "x" -> 120
      [] c = "z" -> 122

\* <str as Ord>::lt: lexicographic on bytes, a proper prefix first.
StrLess(s, t) ==
    \E i \in 1..(Len(t)) :
        /\ i <= Len(s) + 1
        /\ \A j \in 1..(i - 1) : s[j] = t[j]
        /\ i = Len(s) + 1 \/ Byte(s[i]) < Byte(t[i])

\* The sequences that list each element of S exactly once.
Perms(S) ==
    { p \in [1..Cardinality(S) -> S] : \A i, j \in 1..Cardinality(S) :
                                            p[i] = p[j] => i = j }

\* Vec::contains
Contains(v, x) == \E i \in 1..Len(v) : v[i] = x

-----------------------------------------------------------------------------
(* std::collections::HashMap<key, text>: the entries <<key, text>> in the   *)
(* order iteration visits them; a key occurs at most once.                  *)

HashMapNew == << >>

HashMapKeys(m) == { m[i][1] : i \in 1..Len(m) }

HashMapGet(m, k) ==
    IF k \in HashMapKeys(m)
    THEN Some(m[CHOOSE i \in 1..Len(m) : m[i][1] = k][2])
    ELSE None

\* The maps HashMap::extend(data) can leave: every key of data is set to
\* data's text, the other entries are kept, and the iteration order of the
\* result is whatever the hasher and the table's growth make it.
HashMapExtend(m, data) ==
    Perms({ <<k, IF k \in DOMAIN data THEN data[k] ELSE Unwrap(HashMapGet(m, k))>> :
               k \in HashMapKeys(m) \cup DOMAIN data })

-----------------------------------------------------------------------------
(* SimpleBackend: translations is a function locale -> HashMap *)

SimpleBackend_new == << >>

\* An add_translations that replaces the locale's whole map by data.
SimpleAddTranslationsReplace(translations, locale, data) ==
    { [l \in DOMAIN translations \cup {locale} |->
          IF l = locale THEN ext ELSE translations[l]] :
      ext \in HashMapExtend(HashMapNew, data) }

\* An add_translations that returns early on an empty mapping, before the
\* locale's entry is made.
SimpleAddTranslationsSkipEmpty(translations, locale, data) ==
    IF DOMAIN data = {} THEN {translations}
    ELSE LET trs == IF locale \in DOMAIN translations
                    THEN translations[locale] ELSE HashMapNew
         IN  { [l \in DOMAIN translations \cup {locale} |->
                   IF l = locale THEN ext ELSE translations[l]] :
               ext \in HashMapExtend(trs, data) }

\* The backends add_translations(locale, data) can leave.
SimpleBackend_add_translations(translations, locale, data) ==
    LET trs == IF locale \in DOMAIN translations THEN translations[locale]
               ELSE HashMapNew
    IN  { [l \in DOMAIN translations \cup {locale} |->
              IF l = locale THEN ext ELSE translations[l]] :
          ext \in HashMapExtend(trs, data) }

\* Vec::sort of the locale keys.
RECURSIVE SortLocales(_)
SortLocales(S) ==
    IF S = {} THEN << >>
    ELSE LET least == CHOOSE x \in S : \A y \in S \ {x} : StrLess(x, y)
         IN  <<least>> \o SortLocales(S \ {least})

\* The locale keys collected and left unsorted, greatest first.
RECURSIVE LocalesDescending(_)
LocalesDescending(S) ==
    IF S = {} THEN << >>
    ELSE LET most == CHOOSE x \in S : \A y \in S \ {x} : StrLess(y, x)
         IN  <<most>> \o LocalesDescending(S \ {most})

SimpleAvailableLocalesUnsorted(translations) ==
    LocalesDescending(DOMAIN translations)

SimpleBackend_available_locales(translations) ==
    SortLocales(DOMAIN translations)

SimpleBackend_translate(translations, locale, key) ==
    IF locale \in DOMAIN translations
    THEN HashMapGet(translations[locale], key)
    ELSE None

SimpleBackend_messages_for_locale(translations, locale) ==
    IF locale \in DOMAIN translations
    THEN Some(translations[locale])
    ELSE None

-----------------------------------------------------------------------------
(* CombinedBackend and the Backend trait                                    *)
(*                                                                          *)
(* A backend value is <<"simple", translations>> or                         *)
(* <<"combined", a, b>> for CombinedBackend(a, b); the Backend_ operators   *)
(* dispatch on the variant as the trait's impls do.                         *)

Simple(translations) == <<"simple", translations>>

\* BackendExt::extend
extend(self, other) == <<"combined", self, other>>

\* The union of the two lists, sorted again.
CombinedAvailableLocalesResorted(a_locales, b_locales) ==
    SortLocales({ a_locales[i] : i \in 1..Len(a_locales) }
                \cup { b_locales[i] : i \in 1..Len(b_locales) })

\* self.0's list, then each of self.1's locales the list does not hold yet.
RECURSIVE CombinedBackend_available_locales(_, _)
CombinedBackend_available_locales(a_locales, b_locales) ==
    IF b_locales = << >> THEN a_locales
    ELSE CombinedBackend_available_locales(
             IF ~Contains(a_locales, Head(b_locales))
             THEN Append(a_locales, Head(b_locales))
             ELSE a_locales,
             Tail(b_locales))

\* A translate that asks the first backend before the second.
CombinedTranslateBaseFirst(b_text, a_text) == OrElse(a_text, b_text)

\* self.1.translate(..).or_else(|| self.0.translate(..))
CombinedBackend_translate(b_text, a_text) == OrElse(b_text, a_text)

\* A merge that keeps every entry of self.0's list.
CombinedMessagesUnfiltered(b_messages, a_messages, b_translate) ==
    CASE ~IsSome(b_messages) /\ ~IsSome(a_messages) -> None
      [] ~IsSome(b_messages) /\ IsSome(a_messages) -> a_messages
      [] IsSome(b_messages) /\ ~IsSome(a_messages) -> b_messages
      [] OTHER -> Some(Unwrap(b_messages) \o Unwrap(a_messages))

\* A merge whose (None, a) arm yields none.
CombinedMessagesDropBaseOnly(b_messages, a_messages, b_translate) ==
    CASE ~IsSome(b_messages) -> None
      [] IsSome(b_messages) /\ ~IsSome(a_messages) -> b_messages
      [] OTHER ->
           Some(Unwrap(b_messages) \o
                SelectSeq(Unwrap(a_messages),
                          LAMBDA e : ~IsSome(b_translate[e[1]])))

\* b_translate[k] is self.1.translate(locale, k).
CombinedBackend_messages_for_locale(b_messages, a_messages, b_translate) ==
    CASE ~IsSome(b_messages) /\ ~IsSome(a_messages) -> None
      [] ~IsSome(b_messages) /\ IsSome(a_messages) -> a_messages
      [] IsSome(b_messages) /\ ~IsSome(a_messages) -> b_messages
      [] OTHER ->
           Some(Unwrap(b_messages) \o
                SelectSeq(Unwrap(a_messages),
                          LAMBDA e : ~IsSome(b_translate[e[1]])))

RECURSIVE Backend_available_locales(_)
Backend_available_locales(backend) ==
    IF backend[1] = "simple"
    THEN SimpleBackend_available_locales(backend[2])
    ELSE CombinedBackend_available_locales(
             Backend_available_locales(backend[2]),
             Backend_available_locales(backend[3]))

RECURSIVE Backend_translate(_, _, _)
Backend_translate(backend, locale, key) ==
    IF backend[1] = "simple"
    THEN SimpleBackend_translate(backend[2], locale, key)
    ELSE CombinedBackend_translate(
             Backend_translate(backend[3], locale, key),
             Backend_translate(backend[2], locale, key))

RECURSIVE Backend_messages_for_locale(_, _)
Backend_messages_for_locale(backend, locale) ==
    IF backend[1] = "simple"
    THEN SimpleBackend_messages_for_locale(backend[2], locale)
    ELSE CombinedBackend_messages_for_locale(
             Backend_messages_for_locale(backend[3], locale),
             Backend_messages_for_locale(backend[2], locale),
             [k \in Keys |-> Backend_translate(backend[3], locale, k)])

-----------------------------------------------------------------------------
(* The generated module's locale listing *)

\* v with x put before the first element greater than it.
RECURSIVE InsertSorted(_, _)
InsertSorted(v, x) ==
    IF v = << >> THEN <<x>>
    ELSE IF StrLess(x, Head(v)) THEN <<x>> \o v
    ELSE <<Head(v)>> \o InsertSorted(Tail(v), x)

\* Vec::sort: the same elements, each as often as before, in ascending order.
RECURSIVE VecSort(_)
VecSort(v) ==
    IF v = << >> THEN << >>
    ELSE InsertSorted(VecSort(Tail(v)), Head(v))

\* A listing that hands the backend's list on as it is.
AvailableLocalesAsListed(backend) == Backend_available_locales(backend)

\* let mut locales = _RUST_I18N_BACKEND.available_locales(); locales.sort();
_rust_i18n_available_locales(backend) ==
    VecSort(Backend_available_locales(backend))

-----------------------------------------------------------------------------
(* The fallback resolver *)

\* A resolver that cuts at the first hyphen instead of the last.
LookupFallbackFirstHyphen(locale) ==
    LET hits == {i \in 1..Len(locale) : locale[i] = "-"}
    IN  IF hits = {} THEN None
        ELSE LET n == (CHOOSE i \in hits : \A j \in hits : i <= j) - 1
             IN  Some(TrimEndMatches(Prefix(locale, n), PrivateUse))

\* A resolver that cuts at the last hyphen and leaves a trailing "-x".
LookupFallbackNoTrim(locale) ==
    LET n == RFind(locale, "-")
    IN  IF IsSome(n) THEN Some(Prefix(locale, Unwrap(n))) ELSE None

\* locale.rfind('-').map(|n| locale[..n].trim_end_matches("-x"))
_rust_i18n_lookup_fallback(locale) ==
    LET n == RFind(locale, "-")
    IN  IF IsSome(n)
        THEN Some(TrimEndMatches(Prefix(locale, Unwrap(n)), PrivateUse))
        ELSE None

-----------------------------------------------------------------------------
(* The parts of the state a specification leaves untouched *)

FbIdle ==
    /\ fb_tag = << >>
    /\ fb_cur = None
    /\ fb_chain = << >>

SbIdle ==
    /\ simple = SimpleBackend_new
    /\ calls = << >>

LayerNames == {"A", "B", "C"}

CbIdle == layers = [x \in LayerNames |-> SimpleBackend_new]

RsIdle ==
    /\ rs_backend = Simple(SimpleBackend_new)
    /\ rs_fallback = None
    /\ rs_locale = << >>
    /\ rs_key = << >>
    /\ rs_pc = "idle"
    /\ rs_current_locale = << >>
    /\ rs_i = 0
    /\ rs_result = None
    /\ rs_queried = << >>

Threads == {"t1", "t2", "t3"}

LzIdle ==
    /\ lz_program = << >>
    /\ lz_extend = None
    /\ lz_state = "incomplete"
    /\ lz_value = None
    /\ lz_inits = 0
    /\ lz_late_add = FALSE
    /\ th_pc = [t \in Threads |-> "idle"]
    /\ th_backend = [t \in Threads |-> SimpleBackend_new]
    /\ th_todo = [t \in Threads |-> << >>]
    /\ th_seen = [t \in Threads |-> None]

-----------------------------------------------------------------------------
(* Iterating the resolver from a tag, as the documentation's chain does *)

FbInit ==
    /\ fb_tag \in Tags \cup {ExampleTag}
    /\ fb_cur = Some(fb_tag)
    /\ fb_chain = << >>
    /\ SbIdle
    /\ CbIdle
    /\ RsIdle
    /\ LzIdle

\* One application of the resolver to the value last yielded.
FbLookup ==
    /\ IsSome(fb_cur)
    /\ LET r == _rust_i18n_lookup_fallback(Unwrap(fb_cur))
       IN  /\ fb_cur' = r
           /\ fb_chain' = IF IsSome(r) THEN Append(fb_chain, Unwrap(r))
                          ELSE fb_chain
    /\ UNCHANGED fb_tag
    /\ UNCHANGED <<sbVars, cbVars, rsVars, lzVars>>

FbNext == FbLookup

SpecFallback == FbInit /\ [][FbNext]_vars

-----------------------------------------------------------------------------
(* A SimpleBackend under a sequence of add_translations calls *)

\* The most add_translations calls made on one backend.
MaxCalls == 3

SbInit ==
    /\ SbIdle
    /\ FbIdle
    /\ CbIdle
    /\ RsIdle
    /\ LzIdle

SbAddTranslations ==
    /\ Len(calls) < MaxCalls
    /\ \E locale \in Locales, data \in DataMaps :
          /\ simple' \in SimpleBackend_add_translations(simple, locale, data)
          /\ calls' = Append(calls, [locale |-> locale, data |-> data])
    /\ UNCHANGED <<fbVars, cbVars, rsVars, lzVars>>

SbNext == SbAddTranslations

SpecSimple == SbInit /\ [][SbNext]_vars

-----------------------------------------------------------------------------
(* Three SimpleBackends built by add_translations, and their compositions *)

\* The most locale maps the three backends hold together.
MaxMaps == 3

CbMaps ==
    Cardinality({ xl \in LayerNames \X Locales : xl[2] \in DOMAIN layers[xl[1]] })

\* Each backend brings its own wording, as the repository's tests do.
LayerText(x) ==
    CASE x = "A" -> <<"H","e","l","l","o">>
      [] x = "B" -> <<"H","e","l","l","o","2">>
      [] x = "C" -> <<"H","e","l","l","o","3">>

CbInit ==
    /\ CbIdle
    /\ FbIdle
    /\ SbIdle
    /\ RsIdle
    /\ LzIdle

CbAddTranslations ==
    /\ \E x \in LayerNames, locale \in Locales, ks \in SUBSET Keys :
          /\ locale \in DOMAIN layers[x] \/ CbMaps < MaxMaps
          /\ \E next \in SimpleBackend_add_translations(
                             layers[x], locale, [k \in ks |-> LayerText(x)]) :
                layers' = [layers EXCEPT ![x] = next]
    /\ UNCHANGED <<fbVars, sbVars, rsVars, lzVars>>

CbNext == CbAddTranslations

SpecCombined == CbInit /\ [][CbNext]_vars

-----------------------------------------------------------------------------
(* _rust_i18n_translate, statement by statement, on a published backend *)

\* The longest locale tag requested.
MaxLocaleLen == 4

RequestTags == SeqsUpTo(Alphabet, MaxLocaleLen)

\* The locales of the generated catalogs: the empty tag, a language, two
\* longer tags that truncate to it, and an unrelated tag.
RsCatalogLocales ==
    { << >>, <<"a">>, <<"a","-">>, <<"a","-","a">>, <<"x">> }

\* Each catalog entry has a text of its own.
CatalogText(locale, key) == locale \o <<":">> \o key

\* The backends the generated initializer builds: for each locale of the
\* catalog one add_translations call, here with the one key "hello".
RsBackends ==
    { Simple([l \in S |-> << <<HELLO, CatalogText(l, HELLO)>> >>]) :
        S \in SUBSET RsCatalogLocales }

\* i18n!(.., fallback = ..): absent, a list, or one tag (a list of one).
FallbackConfigs ==
    { None,
      Some(<< >>),
      Some(<< <<"x">> >>),
      Some(<< <<"a","-","a">> >>),
      Some(<< <<"a","-","a">>, <<"x">> >>),
      Some(<< <<"x">>, <<"a","-">> >>) }

RsInit ==
    /\ rs_backend \in RsBackends
    /\ rs_fallback \in FallbackConfigs
    /\ rs_locale \in RequestTags
    /\ rs_key \in Keys
    /\ rs_pc = "exact"
    /\ rs_current_locale = << >>
    /\ rs_i = 0
    /\ rs_result = None
    /\ rs_queried = << >>
    /\ FbIdle
    /\ SbIdle
    /\ CbIdle
    /\ LzIdle

\* An exact-match step that goes on to the configured list on a miss.
RsExactSkipsAncestors ==
    /\ rs_pc = "exact"
    /\ LET value == Backend_translate(rs_backend, rs_locale, rs_key)
       IN  /\ rs_queried' = Append(rs_queried, rs_locale)
           /\ IF IsSome(value)
              THEN /\ rs_result' = value
                   /\ rs_pc' = "done"
                   /\ UNCHANGED rs_current_locale
              ELSE /\ rs_pc' = "fallback"
                   /\ rs_current_locale' = rs_locale
                   /\ UNCHANGED rs_result
    /\ rs_i' = 1
    /\ UNCHANGED <<rs_backend, rs_fallback, rs_locale, rs_key>>
    /\ UNCHANGED <<fbVars, sbVars, cbVars, lzVars>>

\* if let Some(value) = _RUST_I18N_BACKEND.translate(locale, key) { return }
\* let mut current_locale = locale;
RsExact ==
    /\ rs_pc = "exact"
    /\ LET value == Backend_translate(rs_backend, rs_locale, rs_key)
       IN  /\ rs_queried' = Append(rs_queried, rs_locale)
           /\ IF IsSome(value)
              THEN /\ rs_result' = value
                   /\ rs_pc' = "done"
                   /\ UNCHANGED rs_current_locale
              ELSE /\ rs_pc' = "walk"
                   /\ rs_current_locale' = rs_locale
                   /\ UNCHANGED rs_result
    /\ UNCHANGED <<rs_backend, rs_fallback, rs_locale, rs_key, rs_i>>
    /\ UNCHANGED <<fbVars, sbVars, cbVars, lzVars>>

\* One test of the while-let loop and, when it yields a tag, one body.
RsWalk ==
    /\ rs_pc = "walk"
    /\ LET fallback_locale == _rust_i18n_lookup_fallback(rs_current_locale)
       IN  IF IsSome(fallback_locale)
           THEN LET value == Backend_translate(rs_backend,
                                 Unwrap(fallback_locale), rs_key)
                IN  /\ rs_queried' = Append(rs_queried, Unwrap(fallback_locale))
                    /\ IF IsSome(value)
                       THEN /\ rs_result' = value
                            /\ rs_pc' = "done"
                            /\ UNCHANGED <<rs_current_locale, rs_i>>
                       ELSE /\ rs_current_locale' = Unwrap(fallback_locale)
                            /\ UNCHANGED <<rs_result, rs_pc, rs_i>>
           ELSE /\ rs_pc' = "fallback"
                /\ rs_i' = 1
                /\ UNCHANGED <<rs_current_locale, rs_result, rs_queried>>
    /\ UNCHANGED <<rs_backend, rs_fallback, rs_locale, rs_key>>
    /\ UNCHANGED <<fbVars, sbVars, cbVars, lzVars>>

\* if let Some(fallback) = _RUST_I18N_FALLBACK_LOCALE { for locale in fallback }:
\* one iteration, or the end of the list.
RsFallback ==
    /\ rs_pc = "fallback"
    /\ IF IsSome(rs_fallback) /\ rs_i <= Len(Unwrap(rs_fallback))
       THEN LET locale == Unwrap(rs_fallback)[rs_i]
                value  == Backend_translate(rs_backend, locale, rs_key)
            IN  /\ rs_queried' = Append(rs_queried, locale)
                /\ IF IsSome(value)
                   THEN /\ rs_result' = value
                        /\ rs_pc' = "done"
                        /\ UNCHANGED rs_i
                   ELSE /\ rs_i' = rs_i + 1
                        /\ UNCHANGED <<rs_result, rs_pc>>
       ELSE /\ rs_pc' = "miss"
            /\ UNCHANGED <<rs_i, rs_result, rs_queried>>
    /\ UNCHANGED <<rs_backend, rs_fallback, rs_locale, rs_key, rs_current_locale>>
    /\ UNCHANGED <<fbVars, sbVars, cbVars, lzVars>>

\* A miss marker built from the last ancestor tried.
RsMissCurrentLocale ==
    /\ rs_pc = "miss"
    /\ rs_result' = Some(IF rs_current_locale = << >> THEN rs_key
                         ELSE rs_current_locale \o <<".">> \o rs_key)
    /\ rs_pc' = "done"
    /\ UNCHANGED <<rs_backend, rs_fallback, rs_locale, rs_key,
                   rs_current_locale, rs_i, rs_queried>>
    /\ UNCHANGED <<fbVars, sbVars, cbVars, lzVars>>

\* if locale.is_empty() { return key.into(); }
\* return format!("{}.{}", locale, key).into();
RsMiss ==
    /\ rs_pc = "miss"
    /\ rs_result' = Some(IF rs_locale = << >> THEN rs_key
                         ELSE rs_locale \o <<".">> \o rs_key)
    /\ rs_pc' = "done"
    /\ UNCHANGED <<rs_backend, rs_fallback, rs_locale, rs_key,
                   rs_current_locale, rs_i, rs_queried>>
    /\ UNCHANGED <<fbVars, sbVars, cbVars, lzVars>>

Next ==
    \/ RsExact
    \/ RsWalk
    \/ RsFallback
    \/ RsMiss

Spec == RsInit /\ [][Next]_vars

-----------------------------------------------------------------------------
(* _RUST_I18N_BACKEND: a once_cell::sync::Lazy whose initializer builds a    *)
(* SimpleBackend with one add_translations statement per locale of the       *)
(* catalog and then extends it; threads reach it through their first lookup. *)

\* The catalogs the macro was given: per locale, the mapping of its files.
LzCatalogs ==
    { [l \in S |-> IF l = EN
                   THEN [k \in Keys |-> <<"H","e","l","l","o">>]
                   ELSE [k \in {HELLO} |-> <<"H","e","l","l","o","2">>]] :
        S \in SUBSET Locales }

\* generate_code emits the statements in the iteration order of its HashMap.
LzPrograms ==
    UNION { { [i \in 1..Cardinality(DOMAIN c) |-> <<p[i], c[p[i]]>>] :
                p \in Perms(DOMAIN c) } : c \in LzCatalogs }

\* i18n!(.., backend = ..): absent, or a backend of the caller's.
LzExtensions ==
    { None,
      Some(Simple([l \in {EN} |-> << <<HELLO, <<"H","e","l","l","o","3">> >> >>])) }

\* What a lookup does with the backend it was handed.
LzOperations ==
    { <<"translate", EN, HELLO>>,
      <<"translate", ZH_CN, HELLO>>,
      <<"available_locales">>,
      <<"messages_for_locale", EN>> }

LzApply(op, backend) ==
    CASE op[1] = "translate" -> Backend_translate(backend, op[2], op[3])
      [] op[1] = "available_locales" -> Backend_available_locales(backend)
      [] op[1] = "messages_for_locale" -> Backend_messages_for_locale(backend, op[2])

LzInit ==
    /\ lz_program \in LzPrograms
    /\ lz_extend \in LzExtensions
    /\ lz_state = "incomplete"
    /\ lz_value = None
    /\ lz_inits = 0
    /\ lz_late_add = FALSE
    /\ th_pc = [t \in Threads |-> "force"]
    /\ th_backend = [t \in Threads |-> SimpleBackend_new]
    /\ th_todo = [t \in Threads |-> << >>]
    /\ th_seen = [t \in Threads |-> None]
    /\ FbIdle
    /\ SbIdle
    /\ CbIdle
    /\ RsIdle

\* A cell that lets every thread that finds it not complete run the closure.
LzForceNoExclusion(t) ==
    /\ th_pc[t] = "force"
    /\ IF lz_state = "complete"
       THEN /\ th_pc' = [th_pc EXCEPT ![t] = "read"]
            /\ UNCHANGED <<lz_state, lz_inits, th_backend, th_todo>>
       ELSE /\ lz_state' = "running"
            /\ lz_inits' = lz_inits + 1
            /\ th_pc' = [th_pc EXCEPT ![t] = "init"]
            /\ th_backend' = [th_backend EXCEPT ![t] = SimpleBackend_new]
            /\ th_todo' = [th_todo EXCEPT ![t] = lz_program]
    /\ UNCHANGED <<lz_program, lz_extend, lz_value, lz_late_add, th_seen>>
    /\ UNCHANGED <<fbVars, sbVars, cbVars, rsVars>>

\* Deref of the Lazy: a complete cell is read; the thread that finds it
\* incomplete takes it and enters the closure (let mut backend =
\* SimpleBackend::new()); a thread that finds it running waits.
LzForce(t) ==
    /\ th_pc[t] = "force"
    /\ CASE lz_state = "complete" ->
              /\ th_pc' = [th_pc EXCEPT ![t] = "read"]
              /\ UNCHANGED <<lz_state, lz_inits, th_backend, th_todo>>
         [] lz_state = "incomplete" ->
              /\ lz_state' = "running"
              /\ lz_inits' = lz_inits + 1
              /\ th_pc' = [th_pc EXCEPT ![t] = "init"]
              /\ th_backend' = [th_backend EXCEPT ![t] = SimpleBackend_new]
              /\ th_todo' = [th_todo EXCEPT ![t] = lz_program]
         [] lz_state = "running" ->
              /\ th_pc' = [th_pc EXCEPT ![t] = "wait"]
              /\ UNCHANGED <<lz_state, lz_inits, th_backend, th_todo>>
    /\ UNCHANGED <<lz_program, lz_extend, lz_value, lz_late_add, th_seen>>
    /\ UNCHANGED <<fbVars, sbVars, cbVars, rsVars>>

\* A waiting thread goes on once the cell is complete.
LzWait(t) ==
    /\ th_pc[t] = "wait"
    /\ lz_state = "complete"
    /\ th_pc' = [th_pc EXCEPT ![t] = "read"]
    /\ UNCHANGED <<lz_program, lz_extend, lz_state, lz_value, lz_inits,
                   lz_late_add, th_backend, th_todo, th_seen>>
    /\ UNCHANGED <<fbVars, sbVars, cbVars, rsVars>>

\* backend.add_translations(locale, &trs.into_iter().collect());
LzAddTranslations(t) ==
    /\ th_pc[t] = "init"
    /\ th_todo[t] # << >>
    /\ \E next \in SimpleBackend_add_translations(
                       th_backend[t], Head(th_todo[t])[1], Head(th_todo[t])[2]) :
          th_backend' = [th_backend EXCEPT ![t] = next]
    /\ th_todo' = [th_todo EXCEPT ![t] = Tail(th_todo[t])]
    /\ lz_late_add' = (lz_late_add \/ \E u \in Threads : IsSome(th_seen[u]))
    /\ UNCHANGED <<lz_program, lz_extend, lz_state, lz_value, lz_inits,
                   th_pc, th_seen>>
    /\ UNCHANGED <<fbVars, sbVars, cbVars, rsVars>>

\* let backend = backend.extend(..); Box::new(backend): the closure returns,
\* the cell stores the value and becomes complete.
LzPublish(t) ==
    /\ th_pc[t] = "init"
    /\ th_todo[t] = << >>
    /\ lz_value' = Some(IF IsSome(lz_extend)
                        THEN extend(Simple(th_backend[t]), Unwrap(lz_extend))
                        ELSE Simple(th_backend[t]))
    /\ lz_state' = "complete"
    /\ th_pc' = [th_pc EXCEPT ![t] = "read"]
    /\ UNCHANGED <<lz_program, lz_extend, lz_inits, lz_late_add,
                   th_backend, th_todo, th_seen>>
    /\ UNCHANGED <<fbVars, sbVars, cbVars, rsVars>>

\* The lookup itself, on the backend the cell handed out.
LzRead(t) ==
    /\ th_pc[t] = "read"
    /\ \E op \in LzOperations :
          th_seen' = [th_seen EXCEPT ![t] = Some(<<op, LzApply(op, Unwrap(lz_value))>>)]
    /\ th_pc' = [th_pc EXCEPT ![t] = "done"]
    /\ UNCHANGED <<lz_program, lz_extend, lz_state, lz_value, lz_inits,
                   lz_late_add, th_backend, th_todo>>
    /\ UNCHANGED <<fbVars, sbVars, cbVars, rsVars>>

LzNext ==
    \E t \in Threads :
        \/ LzForce(t)
        \/ LzWait(t)
        \/ LzAddTranslations(t)
        \/ LzPublish(t)
        \/ LzRead(t)

SpecLazy == LzInit /\ [][LzNext]_vars

-----------------------------------------------------------------------------
(* C3 *)

HasHyphen(s) == \E i \in 1..Len(s) : s[i] = "-"

RECURSIVE Repeat(_, _)
Repeat(pat, n) == IF n = 0 THEN << >> ELSE pat \o Repeat(pat, n - 1)

\* r is the part of t before its last hyphen, less every trailing "-x".
IsTruncationOf(r, t) ==
    \E n \in 0..Len(t) :
        /\ n < Len(t)
        /\ t[n + 1] = "-"
        /\ \A j \in (n + 2)..Len(t) : t[j] # "-"
        /\ ~EndsWith(r, PrivateUse)
        /\ \E m \in 0..n : Prefix(t, n) = r \o Repeat(PrivateUse, m)

ExampleChain ==
    << <<"z","h","-","H","a","n","t","-","C","N","-","x","-",
         "p","r","i","v","a","t","e","1">>,
       <<"z","h","-","H","a","n","t","-","C","N">>,
       <<"z","h","-","H","a","n","t">>,
       <<"z","h">> >>

FbYields == <<fb_tag>> \o fb_chain

\* C3: the resolver yields no value exactly when the tag has no hyphen;
\* otherwise it yields the part before the last hyphen with every trailing
\* "-x" removed; iterated from the documentation's tag it yields the
\* documented four ancestors, in order, and then nothing.
C3_LookupFallback ==
    /\ \A i \in 1..Len(fb_chain) : IsTruncationOf(FbYields[i + 1], FbYields[i])
    /\ fb_cur = None => ~HasHyphen(FbYields[Len(FbYields)])
    /\ IsSome(fb_cur) => Unwrap(fb_cur) = FbYields[Len(FbYields)]
    /\ fb_tag = ExampleTag =>
          /\ Len(fb_chain) <= Len(ExampleChain)
          /\ fb_chain = SubSeq(ExampleChain, 1, Len(fb_chain))
          /\ fb_cur = None => fb_chain = ExampleChain

\* The documented chain has been walked to its end.
C3_Witness ==
    /\ fb_tag = ExampleTag
    /\ fb_cur = None
    /\ Len(fb_chain) = Len(ExampleChain)

\* A tag with a doubled private-use marker has been truncated.
C3_WitnessRepeated ==
    /\ fb_tag = <<"-", "x", "-", "x", "-">>
    /\ fb_chain = << << >> >>

-----------------------------------------------------------------------------
(* C5 *)

\* The calls for locale whose mapping contained key.
CallsSetting(locale, key) ==
    { i \in 1..Len(calls) :
        calls[i].locale = locale /\ key \in DOMAIN calls[i].data }

Latest(S) == CHOOSE i \in S : \A j \in S : j <= i

\* C5: after any sequence of add_translations calls, translate(L, K) is the
\* text of the most recent call for L whose mapping contained K, and none if
\* there was no such call; calls for other locales and calls for L without K
\* do not change it.
C5_LastWriteWinsPerKey ==
    \A locale \in Locales, key \in Keys :
        SimpleBackend_translate(simple, locale, key) =
            IF CallsSetting(locale, key) = {} THEN None
            ELSE Some(calls[Latest(CallsSetting(locale, key))].data[key])

\* "hello" was set for "en", then "en" got a mapping without it and "zh"
\* got another text for it: "en" still answers with the first text.
C5_Witness ==
    /\ Len(calls) = 3
    /\ calls[1].locale = <<"e","n">>
    /\ <<"h","e","l","l","o">> \in DOMAIN calls[1].data
    /\ calls[1].data[<<"h","e","l","l","o">>] = <<"H","e","l","l","o">>
    /\ calls[2].locale = <<"e","n">>
    /\ DOMAIN calls[2].data = { <<"f","o","o">> }
    /\ calls[3].locale = <<"z","h">>
    /\ <<"h","e","l","l","o">> \in DOMAIN calls[3].data
    /\ calls[3].data[<<"h","e","l","l","o">>] = <<"H","e","l","l","o","2">>
    /\ SimpleBackend_translate(simple, <<"e","n">>, <<"h","e","l","l","o">>)
          = Some(<<"H","e","l","l","o">>)

-----------------------------------------------------------------------------
(* The backends composed from the three layers *)

Leaf(x) == Simple(layers[x])

Leaves == { Leaf(x) : x \in LayerNames }

\* The orderings of two and of three distinct layers.
LayerPairs == { p \in LayerNames \X LayerNames : p[1] # p[2] }

LayerTriples ==
    { t \in LayerNames \X LayerNames \X LayerNames :
        t[1] # t[2] /\ t[2] # t[3] /\ t[1] # t[3] }

Pairs == { extend(Leaf(p[1]), Leaf(p[2])) : p \in LayerPairs }

Nested ==
    { extend(extend(Leaf(t[1]), Leaf(t[2])), Leaf(t[3])) : t \in LayerTriples }
    \cup
    { extend(Leaf(t[1]), extend(Leaf(t[2]), Leaf(t[3]))) : t \in LayerTriples }

\* The operands <<a, b>> of the compositions extend(a, b) of two or three
\* distinct layers.
Operands ==
    { <<Leaf(p[1]), Leaf(p[2])>> : p \in LayerPairs } \cup
    { <<extend(Leaf(t[1]), Leaf(t[2])), Leaf(t[3])>> : t \in LayerTriples } \cup
    { <<Leaf(t[1]), extend(Leaf(t[2]), Leaf(t[3]))>> : t \in LayerTriples }

\* Layer x holds the exact pair (locale, key).
Holds(x, locale, key) ==
    /\ locale \in DOMAIN layers[x]
    /\ key \in HashMapKeys(layers[x][locale])

Sorted(v) == \A i \in 1..(Len(v) - 1) : ~StrLess(v[i + 1], v[i])

NoDuplicate(v) == \A i, j \in 1..Len(v) : v[i] = v[j] => i = j

-----------------------------------------------------------------------------
(* C4 *)

\* C4: CombinedBackend(X, Y).translate(L, K) is Y's text whenever Y holds
\* the exact pair, X's text when only X holds it, and none only when neither
\* does; both are asked at L itself.
C4_OverridePrecedence ==
    \A p \in LayerPairs, locale \in Locales, key \in Keys :
        LET x == p[1]
            y == p[2]
        IN  Backend_translate(extend(Leaf(x), Leaf(y)), locale, key) =
                IF Holds(y, locale, key) THEN Some(LayerText(y))
                ELSE IF Holds(x, locale, key) THEN Some(LayerText(x))
                ELSE None

\* A and B both hold ("en", "hello") and only A holds ("en", "foo"): the
\* combination answers "hello" with B's text, "foo" with A's text, and a
\* locale neither holds with none.
C4_Witness ==
    /\ Holds("A", EN, HELLO)
    /\ Holds("B", EN, HELLO)
    /\ Holds("A", EN, FOO)
    /\ ~Holds("B", EN, FOO)
    /\ Backend_translate(extend(Leaf("A"), Leaf("B")), EN, HELLO)
          = Some(LayerText("B"))
    /\ Backend_translate(extend(Leaf("A"), Leaf("B")), EN, FOO)
          = Some(LayerText("A"))
    /\ Backend_translate(extend(Leaf("A"), Leaf("B")), ZH_CN, HELLO) = None

-----------------------------------------------------------------------------
(* C6 *)

\* C6 as stated: every backend variant lists its locales sorted ascending
\* and without duplicate.
C6_SortedEverywhere ==
    \A b \in Leaves \cup Pairs \cup Nested :
        /\ Sorted(Backend_available_locales(b))
        /\ NoDuplicate(Backend_available_locales(b))

\* C6 amended: every backend variant lists its locales without duplicate,
\* and a SimpleBackend lists them sorted ascending.
C6_SortedLeavesNoDuplicate ==
    /\ \A b \in Leaves :
          /\ Sorted(Backend_available_locales(b))
          /\ Backend_available_locales(b) \in Perms(DOMAIN b[2])
    /\ \A b \in Leaves \cup Pairs \cup Nested :
          NoDuplicate(Backend_available_locales(b))

\* A holds "zh" and "en" and lists them sorted; B holds "zh-CN"; B extended
\* by A lists "zh-CN" before "en": no duplicate, and not sorted.
C6_Witness ==
    /\ DOMAIN layers["A"] = {ZH, EN}
    /\ DOMAIN layers["B"] = {ZH_CN}
    /\ Backend_available_locales(Leaf("A")) = <<EN, ZH>>
    /\ Backend_available_locales(extend(Leaf("B"), Leaf("A"))) = <<ZH_CN, EN, ZH>>

-----------------------------------------------------------------------------
(* C7 *)

\* C7: CombinedBackend(a, b) lists a's locales in a's order, then those of
\* b's locales that a's list does not hold, in b's order.
C7_FirstSeenUnion ==
    \A ab \in Operands :
        LET a  == ab[1]
            b  == ab[2]
            la == Backend_available_locales(a)
            lb == Backend_available_locales(b)
        IN  Backend_available_locales(extend(a, b)) =
                la \o SelectSeq(lb, LAMBDA l : ~Contains(la, l))

\* A lists "zh"; B lists "en", "zh-CN": the combination is
\* "zh", "en", "zh-CN", not sorted again.
C7_Witness ==
    /\ Backend_available_locales(Leaf("A")) = <<ZH>>
    /\ Backend_available_locales(Leaf("B")) = <<EN, ZH_CN>>
    /\ Backend_available_locales(extend(Leaf("A"), Leaf("B"))) = <<ZH, EN, ZH_CN>>

-----------------------------------------------------------------------------
(* C8 *)

EntryKeys(m) == { m[i][1] : i \in 1..Len(m) }

\* C8: CombinedBackend(a, b).messages_for_locale(L) is none when neither
\* side knows L, the knowing side's list when one does, and otherwise b's
\* list followed by the entries of a's list whose key b does not translate
\* at L; no key is listed twice and every listed pair is what translate
\* answers.
C8_MergedMessages ==
    \A ab \in Operands, locale \in Locales :
        LET a  == ab[1]
            b  == ab[2]
            ma == Backend_messages_for_locale(a, locale)
            mb == Backend_messages_for_locale(b, locale)
            m  == Backend_messages_for_locale(extend(a, b), locale)
        IN  /\ ~IsSome(ma) /\ ~IsSome(mb) => m = None
            /\ IsSome(ma) /\ ~IsSome(mb) => m = ma
            /\ ~IsSome(ma) /\ IsSome(mb) => m = mb
            /\ IsSome(ma) /\ IsSome(mb) =>
                  m = Some(Unwrap(mb) \o
                           SelectSeq(Unwrap(ma), LAMBDA e :
                               Backend_translate(b, locale, e[1]) = None))
            /\ IsSome(m) =>
                  /\ \A i, j \in 1..Len(Unwrap(m)) :
                        Unwrap(m)[i][1] = Unwrap(m)[j][1] => i = j
                  /\ \A i \in 1..Len(Unwrap(m)) :
                        Backend_translate(extend(a, b), locale, Unwrap(m)[i][1])
                            = Some(Unwrap(m)[i][2])

\* A holds "hello" and "foo" for "en", B holds "hello": the merged list is
\* B's "hello" followed by A's "foo"; for "zh", which only A knows, it is
\* A's list.
C8_Witness ==
    /\ DOMAIN layers["A"] = {EN, ZH}
    /\ DOMAIN layers["B"] = {EN}
    /\ EntryKeys(layers["A"][EN]) = {HELLO, FOO}
    /\ EntryKeys(layers["B"][EN]) = {HELLO}
    /\ Backend_messages_for_locale(extend(Leaf("A"), Leaf("B")), EN)
          = Some(<< <<HELLO, LayerText("B")>>, <<FOO, LayerText("A")>> >>)
    /\ Backend_messages_for_locale(extend(Leaf("A"), Leaf("B")), ZH)
          = Some(layers["A"][ZH])
    /\ Backend_messages_for_locale(extend(Leaf("A"), Leaf("B")), ZH_CN) = None

-----------------------------------------------------------------------------
(* C9 *)

\* Layer x's entries for locale, none counted as no entry.
LayerList(x, locale) ==
    IF locale \in DOMAIN layers[x] THEN layers[x][locale] ELSE << >>

\* C9: extend(extend(X, Y), Z) and extend(X, extend(Y, Z)) agree on
\* translate (Z's text first, then Y's, then X's), on available_locales and
\* on messages_for_locale (Z's entries, then Y's, then X's, each key once).
C9_Associative ==
    \A t \in LayerTriples :
        LET x == t[1]
            y == t[2]
            z == t[3]
            left  == extend(extend(Leaf(x), Leaf(y)), Leaf(z))
            right == extend(Leaf(x), extend(Leaf(y), Leaf(z)))
        IN  /\ Backend_available_locales(left) = Backend_available_locales(right)
            /\ \A locale \in Locales :
                  /\ \A key \in Keys :
                        /\ Backend_translate(left, locale, key)
                              = Backend_translate(right, locale, key)
                        /\ Backend_translate(left, locale, key) =
                              IF Holds(z, locale, key) THEN Some(LayerText(z))
                              ELSE IF Holds(y, locale, key) THEN Some(LayerText(y))
                              ELSE IF Holds(x, locale, key) THEN Some(LayerText(x))
                              ELSE None
                  /\ Backend_messages_for_locale(left, locale)
                        = Backend_messages_for_locale(right, locale)
                  /\ Backend_messages_for_locale(left, locale) =
                        IF \A w \in {x, y, z} : locale \notin DOMAIN layers[w]
                        THEN None
                        ELSE Some(LayerList(z, locale)
                                  \o SelectSeq(LayerList(y, locale), LAMBDA e :
                                         ~Holds(z, locale, e[1]))
                                  \o SelectSeq(LayerList(x, locale), LAMBDA e :
                                         ~Holds(z, locale, e[1])
                                         /\ ~Holds(y, locale, e[1])))

\* The three layers all hold "hello" for "en" and A and B hold "foo" too:
\* both nestings answer "hello" with C's text and list C's "hello", then
\* B's "foo".
C9_Witness ==
    /\ EntryKeys(LayerList("A", EN)) = {HELLO, FOO}
    /\ EntryKeys(LayerList("B", EN)) = {HELLO, FOO}
    /\ EntryKeys(LayerList("C", EN)) = {HELLO}
    /\ Backend_translate(extend(extend(Leaf("A"), Leaf("B")), Leaf("C")), EN, HELLO)
          = Some(LayerText("C"))
    /\ Backend_messages_for_locale(
           extend(Leaf("A"), extend(Leaf("B"), Leaf("C"))), EN)
          = Some(<< <<HELLO, LayerText("C")>>, <<FOO, LayerText("B")>> >>)

\* A and C know "en" and B does not: the nestings still agree.
C9_WitnessGap ==
    /\ DOMAIN layers["A"] = {EN}
    /\ DOMAIN layers["B"] = {ZH}
    /\ DOMAIN layers["C"] = {EN}
    /\ Len(layers["A"][EN]) = 2
    /\ Len(layers["C"][EN]) = 1

-----------------------------------------------------------------------------
(* C1 *)

\* The ancestors of a tag, most specific first.
RECURSIVE Ancestors(_)
Ancestors(locale) ==
    LET up == _rust_i18n_lookup_fallback(locale)
    IN  IF IsSome(up) THEN <<Unwrap(up)>> \o Ancestors(Unwrap(up)) ELSE << >>

ConfiguredList == IF IsSome(rs_fallback) THEN Unwrap(rs_fallback) ELSE << >>

\* The requested locale, its ancestors, then the configured list as given.
ResolutionOrder == <<rs_locale>> \o Ancestors(rs_locale) \o ConfiguredList

\* The published catalog holds the exact pair (locale, key).
RsHolds(locale, key) ==
    /\ locale \in DOMAIN rs_backend[2]
    /\ key \in HashMapKeys(rs_backend[2][locale])

RsHits == { i \in 1..Len(ResolutionOrder) : RsHolds(ResolutionOrder[i], rs_key) }

RsFirstHit == CHOOSE i \in RsHits : \A j \in RsHits : i <= j

\* C1: the call asks the backend along the requested locale, its ancestors
\* (most specific first) and then the configured fallback locales exactly as
\* given, and returns the backend's text at the first of them that has the
\* key; it asks nothing past that hit.
C1_FirstHitInOrder ==
    /\ Len(rs_queried) <= Len(ResolutionOrder)
    /\ rs_queried = SubSeq(ResolutionOrder, 1, Len(rs_queried))
    /\ (rs_pc = "done" /\ RsHits # {}) =>
          /\ rs_result = Some(CatalogText(ResolutionOrder[RsFirstHit], rs_key))
          /\ rs_queried = SubSeq(ResolutionOrder, 1, RsFirstHit)

\* "a-a-" is asked for; the catalog holds the key at "a" and at "x", and "x"
\* is the configured fallback: the ancestor "a" answers.
C1_Witness ==
    /\ rs_pc = "done"
    /\ rs_locale = <<"a","-","a","-">>
    /\ rs_key = HELLO
    /\ DOMAIN rs_backend[2] = { <<"a">>, <<"x">> }
    /\ rs_fallback = Some(<< <<"x">> >>)
    /\ rs_queried = << <<"a","-","a","-">>, <<"a","-","a">>, <<"a">> >>
    /\ rs_result = Some(CatalogText(<<"a">>, HELLO))

\* "-a" is asked for with the list "a-a", "x" configured; the catalog holds
\* the key at "a" and at "x": "a-a" is asked as given, not cut to "a", and
\* the list's second entry answers.
C1_WitnessConfigured ==
    /\ rs_pc = "done"
    /\ rs_locale = <<"-","a">>
    /\ rs_key = HELLO
    /\ DOMAIN rs_backend[2] = { <<"a">>, <<"x">> }
    /\ rs_fallback = Some(<< <<"a","-","a">>, <<"x">> >>)
    /\ rs_queried = << <<"-","a">>, << >>, <<"a","-","a">>, <<"x">> >>
    /\ rs_result = Some(CatalogText(<<"x">>, HELLO))

-----------------------------------------------------------------------------
(* C2 *)

MissMarker(locale, key) ==
    IF locale = << >> THEN key ELSE locale \o <<".">> \o key

\* C2: a call always ends with a value; when the key is at none of the
\* requested locale, its ancestors and the configured fallback locales, the
\* value is the key itself for the empty locale and otherwise the requested
\* locale, a dot and the key.
C2_MissMarker ==
    /\ rs_pc \in {"exact", "walk", "fallback", "miss", "done"}
    /\ rs_pc = "done" <=> IsSome(rs_result)
    /\ (rs_pc = "done" /\ RsHits = {}) =>
          rs_result = Some(MissMarker(rs_locale, rs_key))

\* "a-a" is asked for a key the catalog has nowhere, with "x" configured:
\* the marker carries "a-a", not the last ancestor "a" and not "x".
C2_Witness ==
    /\ rs_pc = "done"
    /\ rs_locale = <<"a","-","a">>
    /\ rs_key = FOO
    /\ DOMAIN rs_backend[2] = { <<"a">>, <<"x">> }
    /\ rs_fallback = Some(<< <<"x">> >>)
    /\ rs_current_locale = <<"a">>
    /\ rs_queried = << <<"a","-","a">>, <<"a">>, <<"x">> >>
    /\ rs_result = Some(<<"a","-","a",".","f","o","o">>)

\* The empty locale is asked for a key found nowhere: the key comes back.
C2_WitnessEmptyLocale ==
    /\ rs_pc = "done"
    /\ rs_locale = << >>
    /\ rs_key = HELLO
    /\ rs_backend[2] = SimpleBackend_new
    /\ rs_result = Some(HELLO)

-----------------------------------------------------------------------------
(* C10 *)

\* The SimpleBackend inside the published backend.
LzBase(backend) == IF backend[1] = "simple" THEN backend[2] ELSE backend[2][2]

\* Every statement of the initializer shows in the backend.
LzFullyBuilt(backend) ==
    /\ DOMAIN LzBase(backend) = { lz_program[i][1] : i \in 1..Len(lz_program) }
    /\ \A i \in 1..Len(lz_program) :
          \A k \in DOMAIN lz_program[i][2] :
              SimpleBackend_translate(LzBase(backend), lz_program[i][1], k)
                  = Some(lz_program[i][2][k])
    /\ IsSome(lz_extend) => backend = extend(Simple(LzBase(backend)), Unwrap(lz_extend))

\* C10: the initializer is entered at most once; a thread reads only a
\* complete cell, whose backend shows every add_translations statement and
\* the extension; what a thread read is what the published backend answers;
\* and no add_translations runs after a read.
C10_PublishedComplete ==
    /\ lz_inits <= 1
    /\ ~lz_late_add
    /\ lz_state = "complete" <=> IsSome(lz_value)
    /\ lz_state = "complete" => \A t \in Threads : th_pc[t] # "init"
    /\ \A t \in Threads :
          /\ th_pc[t] \in {"read", "done"} =>
                /\ lz_state = "complete"
                /\ LzFullyBuilt(Unwrap(lz_value))
          /\ IsSome(th_seen[t]) =>
                /\ th_pc[t] = "done"
                /\ Unwrap(th_seen[t])[2]
                      = LzApply(Unwrap(th_seen[t])[1], Unwrap(lz_value))

\* Three statements and an extension: one thread built and has read the
\* extension's text for ("en", "hello"), a second still waits on the cell it
\* found running, the third has not reached the cell yet.
C10_Witness ==
    /\ Len(lz_program) = 3
    /\ IsSome(lz_extend)
    /\ lz_inits = 1
    /\ \E t, u, v \in Threads :
          /\ th_pc[t] = "done"
          /\ th_todo[t] = << >> /\ DOMAIN th_backend[t] = Locales
          /\ th_seen[t] = Some(<< <<"translate", EN, HELLO>>,
                                  Some(<<"H","e","l","l","o","3">>) >>)
          /\ th_pc[u] = "wait"
          /\ th_pc[v] = "force"

-----------------------------------------------------------------------------
(* C11 *)

\* The locales some layer of a composed backend holds.
RECURSIVE KnownLocales(_)
KnownLocales(backend) ==
    IF backend[1] = "simple" THEN DOMAIN backend[2]
    ELSE KnownLocales(backend[2]) \cup KnownLocales(backend[3])

\* C11: for a SimpleBackend and for every composition of the layers, the
\* generated _rust_i18n_available_locales() lists exactly the locales the
\* backend knows, sorted ascending and each once, also where the backend's
\* own list is in first-seen order.
C11_TopLevelSorted ==
    \A b \in Leaves \cup Pairs \cup Nested :
        LET listed == _rust_i18n_available_locales(b)
        IN  /\ Sorted(listed)
            /\ NoDuplicate(listed)
            /\ { listed[i] : i \in 1..Len(listed) } = KnownLocales(b)

\* B holds "zh-CN" and is extended by A, which holds "en" and "zh": the
\* combined backend lists "zh-CN" first, the generated function lists it last.
C11_Witness ==
    /\ DOMAIN layers["A"] = {ZH, EN}
    /\ DOMAIN layers["B"] = {ZH_CN}
    /\ Backend_available_locales(extend(Leaf("B"), Leaf("A"))) = <<ZH_CN, EN, ZH>>
    /\ _rust_i18n_available_locales(extend(Leaf("B"), Leaf("A"))) = <<EN, ZH, ZH_CN>>

-----------------------------------------------------------------------------
(* C12 *)

\* add_translations has been called for locale.
CalledFor(locale) == \E i \in 1..Len(calls) : calls[i].locale = locale

\* The (key, text) pairs locale holds by the calls made: each key some call
\* for locale contained, with the text of the latest such call.
CurrentPairs(locale) ==
    { <<key, calls[Latest(CallsSetting(locale, key))].data[key]>> :
        key \in { k \in Keys : CallsSetting(locale, k) # {} } }

\* C12: after any sequence of add_translations calls, messages_for_locale(L)
\* is none exactly when no call was made for L, which is exactly when L is
\* not in available_locales(); once a call for L was made, with an empty
\* mapping or not, L is listed, messages_for_locale(L) is a list holding
\* exactly the current (key, text) pairs of L, each once, and translate(L, K)
\* is none for every K no call for L contained.
C12_LocaleEntry ==
    \A locale \in Locales :
        LET messages == SimpleBackend_messages_for_locale(simple, locale)
            listed   == Contains(SimpleBackend_available_locales(simple), locale)
        IN  /\ (messages = None) <=> ~CalledFor(locale)
            /\ listed <=> CalledFor(locale)
            /\ CalledFor(locale) =>
                  LET m == Unwrap(messages)
                  IN  /\ { m[i] : i \in 1..Len(m) } = CurrentPairs(locale)
                      /\ Len(m) = Cardinality(CurrentPairs(locale))
                      /\ \A key \in Keys :
                            CallsSetting(locale, key) = {} =>
                               SimpleBackend_translate(simple, locale, key) = None

\* Only empty mappings were added for "en": the locale is listed, its message
\* list is present and empty, and no key translates.
C12_Witness ==
    /\ CalledFor(EN)
    /\ \A i \in 1..Len(calls) : calls[i].locale = EN => DOMAIN calls[i].data = {}
    /\ SimpleBackend_available_locales(simple) = <<EN>>
    /\ SimpleBackend_messages_for_locale(simple, EN) = Some(<< >>)
    /\ SimpleBackend_translate(simple, EN, HELLO) = None

\* A locale with a non-empty list beside a locale never added.
C12_WitnessPairs ==
    /\ CalledFor(EN) /\ ~CalledFor(ZH)
    /\ CurrentPairs(EN) # {}
    /\ Len(Unwrap(SimpleBackend_messages_for_locale(simple, EN))) = 2
    /\ SimpleBackend_messages_for_locale(simple, ZH) = None

-----------------------------------------------------------------------------
(* C13 *)

Hyphens(s) == Cardinality({ i \in 1..Len(s) : s[i] = "-" })

IsProperPrefix(r, t) == Len(r) < Len(t) /\ r = Prefix(t, Len(r))

\* The call is in its ancestor walk, has returned from it with a hit (or
\* from the exact match), or has just left it for the configured list.
WalkOnly ==
    \/ rs_pc = "walk"
    \/ rs_pc = "done" /\ rs_i = 0
    \/ rs_pc = "fallback" /\ rs_i = 1

\* C13: the ancestor walk terminates. Each ancestor queried is a strictly
\* shorter proper prefix of the tag it was derived from; the queries made
\* plus the hyphens left in the current tag never exceed the hyphens of the
\* requested tag, so the walk makes at most that many queries and then the
\* resolver yields none; and for a requested tag that does not begin with a
\* hyphen every ancestor queried is non-empty and does not end in "-x".
C13_WalkTerminates ==
    WalkOnly =>
        LET asked == Tail(rs_queried)
        IN  /\ \A i \in 1..Len(asked) :
                  IsProperPrefix(rs_queried[i + 1], rs_queried[i])
            /\ Len(asked) <= Hyphens(rs_locale)
            /\ rs_pc = "walk" =>
                  Len(asked) + Hyphens(rs_current_locale) <= Hyphens(rs_locale)
            /\ rs_pc = "fallback" =>
                  /\ asked = Ancestors(rs_locale)
                  /\ _rust_i18n_lookup_fallback(rs_queried[Len(rs_queried)]) = None
            /\ (rs_locale # << >> /\ rs_locale[1] # "-") =>
                  \A i \in 1..Len(asked) :
                      /\ asked[i] # << >>
                      /\ ~EndsWith(asked[i], PrivateUse)

\* "a-x-" missed everywhere: one ancestor query, "a", for two hyphens.
C13_Witness ==
    /\ rs_pc = "fallback"
    /\ rs_i = 1
    /\ rs_locale = <<"a", "-", "x", "-">>
    /\ rs_queried = << <<"a", "-", "x", "-">>, <<"a">> >>

\* "a-a-" missed everywhere: as many ancestor queries as hyphens.
C13_WitnessEveryHyphen ==
    /\ rs_pc = "fallback"
    /\ rs_i = 1
    /\ rs_locale = <<"a", "-", "a", "-">>
    /\ Len(rs_queried) = 1 + Hyphens(rs_locale)

\* A tag with an empty first subtag reaches the empty ancestor.
C13_WitnessEmptyFirstSubtag ==
    /\ rs_pc = "fallback"
    /\ rs_locale = <<"-", "x", "-", "a">>
    /\ rs_queried = << <<"-", "x", "-", "a">>, << >> >>

=============================================================================
